---- MODULE Spec2Model ----
(***************************************************************************)
(* Model of lib/sqlalchemy/orm/path_registry.py: the PathRegistry tree     *)
(* (RootRegistry, EntityRegistry, PropRegistry, TokenRegistry), the lazy   *)
(* per-EntityRegistry dict cache, the restatement done by                  *)
(* PropRegistry.__init__, and serialize / deserialize.                     *)
(*                                                                         *)
(* Registry objects live in a heap (a sequence of records, the index is    *)
(* the object's identity).  Path elements are descriptor names.            *)
(***************************************************************************)
EXTENDS Integers, Sequences, FiniteSets, TLC

\* ------------------------------------------------------------- bounds
\* Largest number of registry objects alive (the root included).
MaxObjs == 5
\* Integer subscripts tried by p[i] range over -1 .. MaxIdx.
MaxIdx == 1
\* Largest number of TokenRegistry objects alive.
MaxTokens == 2
\* Largest number of registry objects alive while callers race.
MaxObjsConc == 5
\* Number of concurrent callers of EntityRegistry.__getitem__.
NumThreads == 2

\* ------------------------------------------------ descriptor universe
\* Mapped classes: T is a base, S1 and S2 inherit from it.
Mappers == {"T", "S1", "S2"}
\* Aliased views.  A: with_polymorphic alias of T presenting {S1, S2}, not
\* deferring to the mapper path; AS1, AS2: A's subclass views.  D: alias of
\* T that defers to the mapper path and also presents {S1, S2}; DS1, DS2:
\* its subclass views.
Aliases == {"A", "AS1", "AS2", "D", "DS1", "DS2"}
Entities == Mappers \cup Aliases
\* pT: relationship declared on T leading to S1; pS1: scalar declared on S1.
Props == {"pT", "pS1"}
Tokens == {"tok"}
Keys == Entities \cup Props \cup Tokens
\* The keys callers subscript a registry of each class with: the keys that
\* class is meant for, and some it is not meant for.
InputKeys(kind) ==
    CASE kind = "Root" -> {"T", "A", "D", "pT"}
      [] kind = "Prop" -> {"S1", "A", "tok"}
      [] kind = "Token" -> {"T"}
      [] OTHER -> {"pT", "pS1", "tok"}
IntKeys == (0 - 1) .. MaxIdx

is_aliased_class(e) == e \in Aliases

is_mapper(e) == e \in Mappers

use_mapper_path(e) == e \in {"D", "DS1", "DS2"}

with_polymorphic_mappers(e) == IF e \in {"A", "D"} THEN {"S1", "S2"} ELSE {}

mapper(e) ==
    CASE e \in {"T", "A", "D"} -> "T"
      [] e \in {"S1", "AS1", "DS1"} -> "S1"
      [] OTHER -> "S2"

inherits(m) == IF m \in {"S1", "S2"} THEN "T" ELSE "none"

isa(m, other) == m = other \/ inherits(m) = other

\* AliasedInsp._entity_for_mapper, for a mapper among the presented ones.
entity_for_mapper(e, m) ==
    CASE e = "A" /\ m = "S1" -> "AS1"
      [] e = "A" /\ m = "S2" -> "AS2"
      [] e = "D" /\ m = "S1" -> "DS1"
      [] e = "D" /\ m = "S2" -> "DS2"
      [] OTHER -> e

class_(e) ==
    CASE mapper(e) = "T" -> "clsT"
      [] mapper(e) = "S1" -> "clsS1"
      [] OTHER -> "clsS2"

class_mapper(c) ==
    CASE c = "clsT" -> "T"
      [] c = "clsS1" -> "S1"
      [] OTHER -> "S2"

prop_parent(p) == IF p = "pT" THEN "T" ELSE "S1"

prop_key(p) == IF p = "pT" THEN "pt" ELSE "ps1"

prop_mapper(p) == IF p = "pT" THEN "S1" ELSE "none"

\* mapper.attrs: the properties of a mapper, its inherited ones included.
attrs(m) == {p \in Props : isa(m, prop_parent(p))}

\* ---------------------------------------------------------------- state
VARIABLES
    heap,      \* Seq of registry objects [kind, path, parent, cache]
    reg,       \* entity -> its memoized root-level EntityRegistry (0: none)
    res,       \* what the last completed call did and returned
    thr,       \* thread -> position of a caller inside EntityRegistry[key]
    returned   \* every <<E, key, path>> an EntityRegistry[key] call returned

vars == <<heap, reg, res, thr, returned>>

\* PathRegistry.root, the first object of the heap.
Root == 1

EmptyCache == [k \in Keys |-> 0]

NewNode(kind, path, parent) ==
    [kind |-> kind, path |-> path, parent |-> parent, cache |-> EmptyCache]

\* A store is the pair of the heap and the per-entity memo.
Store(h, r) == [heap |-> h, reg |-> r]

Alloc(st, node) == Store(Append(st.heap, node), st.reg)

Ok(st, id) == [st |-> st, err |-> FALSE, out |-> id]

Raise(st) == [st |-> st, err |-> TRUE, out |-> 0]

Last(s) == s[Len(s)]

\* The object a constructor has just appended to the heap.
Fresh(st) == Ok(st, Len(st.heap))

\* ------------------------------------------------------------ registry
\* EntityRegistry.__init__: entity.is_aliased_class is read, so only an
\* entity descriptor gets through.
EntityRegistry_init(st, parent, entity) ==
    IF entity \notin Entities
    THEN Raise(st)
    ELSE Fresh(Alloc(st, NewNode("Entity",
                     Append(st.heap[parent].path, entity), parent)))

per_mapper(st, entity) == EntityRegistry_init(st, Root, entity)

\* The memoized attribute keeps the registry r that per_mapper returned.
Memoize(r, entity) ==
    Ok(Store(r.st.heap, [r.st.reg EXCEPT ![entity] = r.out]), r.out)

\* entity._path_registry: created by per_mapper on first use, then reused.
path_registry(st, entity) ==
    IF st.reg[entity] # 0
    THEN Ok(st, st.reg[entity])
    ELSE Memoize(per_mapper(st, entity), entity)

RootRegistry_getitem(st, key) ==
    IF key \notin Entities THEN Raise(st) ELSE path_registry(st, key)

TokenRegistry_init(st, parent, token) ==
    Fresh(Alloc(st, NewNode("Token",
                Append(st.heap[parent].path, token), parent)))

\* Variant: token() is the method on every class, the TokenRegistry too.
token_unshadowed(st, n, t) == TokenRegistry_init(st, n, t)

\* p.token(t).  TokenRegistry.__init__ stores t in the instance attribute
\* self.token, which hides the method on a TokenRegistry: there the call
\* p.token(t) calls t, not a callable, and raises TypeError.
token(st, n, t) ==
    IF st.heap[n].kind = "Token"
    THEN Raise(st)
    ELSE TokenRegistry_init(st, n, t)

TokenRegistry_getitem(st, n, key) == Raise(st)

PropRegistry_getitem(st, n, key) == EntityRegistry_init(st, n, key)

\* parent.parent[x] inside PropRegistry.__init__: the parent of an
\* EntityRegistry is the root or a PropRegistry.
ParentGetItem(st, gp, key) ==
    IF st.heap[gp].kind = "Root"
    THEN RootRegistry_getitem(st, key)
    ELSE PropRegistry_getitem(st, gp, key)

\* Variant: the first branch is taken by plain mappers only, so an alias
\* that defers to the mapper path is treated like any other alias.
Restate_alias_kept(e, prop) ==
    IF ~is_aliased_class(e)
    THEN IF prop \in Props
         THEN [act |-> "rebase", ent |-> prop_parent(prop)]
         ELSE [act |-> "raise", ent |-> e]
    ELSE IF is_aliased_class(e) /\ with_polymorphic_mappers(e) # {}
    THEN IF prop \notin Props
         THEN [act |-> "raise", ent |-> e]
         ELSE IF prop_parent(prop) # mapper(e)
                 /\ prop_parent(prop) \in with_polymorphic_mappers(e)
         THEN [act |-> "rebase", ent |-> entity_for_mapper(e, prop_parent(prop))]
         ELSE [act |-> "keep", ent |-> e]
    ELSE [act |-> "keep", ent |-> e]

\* Variant: the polymorphic branch rebases onto the bare declaring mapper,
\* losing the alias.
Restate_bare_subclass(e, prop) ==
    IF ~is_aliased_class(e) \/ use_mapper_path(e)
    THEN IF prop \in Props
         THEN [act |-> "rebase", ent |-> prop_parent(prop)]
         ELSE [act |-> "raise", ent |-> e]
    ELSE IF is_aliased_class(e) /\ with_polymorphic_mappers(e) # {}
    THEN IF prop \notin Props
         THEN [act |-> "raise", ent |-> e]
         ELSE IF prop_parent(prop) # mapper(e)
                 /\ prop_parent(prop) \in with_polymorphic_mappers(e)
         THEN [act |-> "rebase", ent |-> prop_parent(prop)]
         ELSE [act |-> "keep", ent |-> e]
    ELSE [act |-> "keep", ent |-> e]

\* Variant: the polymorphic branch is tested before the mapper-path branch.
Restate_poly_first(e, prop) ==
    IF is_aliased_class(e) /\ with_polymorphic_mappers(e) # {}
    THEN IF prop \notin Props
         THEN [act |-> "raise", ent |-> e]
         ELSE IF prop_parent(prop) # mapper(e)
                 /\ prop_parent(prop) \in with_polymorphic_mappers(e)
         THEN [act |-> "rebase", ent |-> entity_for_mapper(e, prop_parent(prop))]
         ELSE IF use_mapper_path(e)
         THEN [act |-> "rebase", ent |-> prop_parent(prop)]
         ELSE [act |-> "keep", ent |-> e]
    ELSE IF ~is_aliased_class(e) \/ use_mapper_path(e)
    THEN IF prop \in Props
         THEN [act |-> "rebase", ent |-> prop_parent(prop)]
         ELSE [act |-> "raise", ent |-> e]
    ELSE [act |-> "keep", ent |-> e]

\* The decision PropRegistry.__init__ takes from inspect(parent[-1]) and
\* prop: rebase the parent onto an entity, keep it, or raise because prop
\* has no .parent.
Restate(e, prop) ==
    IF ~is_aliased_class(e) \/ use_mapper_path(e)
    THEN IF prop \in Props
         THEN [act |-> "rebase", ent |-> prop_parent(prop)]
         ELSE [act |-> "raise", ent |-> e]
    ELSE IF is_aliased_class(e) /\ with_polymorphic_mappers(e) # {}
    THEN IF prop \notin Props
         THEN [act |-> "raise", ent |-> e]
         ELSE IF prop_parent(prop) # mapper(e)
                 /\ prop_parent(prop) \in with_polymorphic_mappers(e)
         THEN [act |-> "rebase", ent |-> entity_for_mapper(e, prop_parent(prop))]
         ELSE [act |-> "keep", ent |-> e]
    ELSE [act |-> "keep", ent |-> e]

\* self.parent = parent; self.path = parent.path + (prop,), with r the
\* parent the restatement settled on.
PropRegistry_under(r, prop) ==
    Fresh(Alloc(r.st, NewNode("Prop",
                Append(r.st.heap[r.out].path, prop), r.out)))

\* The branch of PropRegistry.__init__ that the decision d selects.
PropRegistry_restated(st, parent, prop, d) ==
    IF d.act = "raise"
    THEN Raise(st)
    ELSE PropRegistry_under(
             IF d.act = "rebase"
             THEN ParentGetItem(st, st.heap[parent].parent, d.ent)
             ELSE Ok(st, parent),
             prop)

PropRegistry_init(st, parent, prop) ==
    PropRegistry_restated(st, parent, prop,
                          Restate(Last(st.heap[parent].path), prop))

\* Variant: keys are told apart by their class only, so every property
\* lands in one slot.
dict_slot_by_class(key) == IF key \in Props THEN "pT" ELSE key

\* The dict slot a key occupies in an EntityRegistry.
dict_slot(key) == key

SetItem(st, n, key, item) ==
    Store([st.heap EXCEPT ![n].cache[dict_slot(key)] = item], st.reg)

\* self[key] = item, with r the outcome of constructing item from the
\* store st: an exception leaves st as it was.
Assign(st, n, key, r) ==
    IF r.err THEN Raise(st) ELSE Ok(SetItem(r.st, n, key, r.out), r.out)

\* Variant: the slot is filled before the PropRegistry is constructed.
EntityRegistry_missing_publish_first(st, n, key) ==
    Assign(SetItem(st, n, key, n), n, key,
           PropRegistry_init(SetItem(st, n, key, n), n, key))

EntityRegistry_missing(st, n, key) ==
    Assign(st, n, key, PropRegistry_init(st, n, key))

EntityRegistry_getitem(st, n, key) ==
    IF st.heap[n].cache[dict_slot(key)] # 0
    THEN Ok(st, st.heap[n].cache[dict_slot(key)])
    ELSE EntityRegistry_missing(st, n, key)

\* p[key] for a key that is no int: dispatch on the class of p.
GetItem(st, n, key) ==
    CASE st.heap[n].kind = "Root" -> RootRegistry_getitem(st, key)
      [] st.heap[n].kind = "Token" -> TokenRegistry_getitem(st, n, key)
      [] st.heap[n].kind = "Prop" -> PropRegistry_getitem(st, n, key)
      [] OTHER -> EntityRegistry_getitem(st, n, key)

RECURSIVE reduce(_, _, _)
\* One round of reduce: r is prev[next]; an exception ends the fold.
reduce_step(r, rest) == IF r.err THEN r ELSE reduce(r.st, r.out, rest)

\* util.reduce(lambda prev, next: prev[next], raw, start)
reduce(st, n, raw) ==
    IF raw = <<>>
    THEN Ok(st, n)
    ELSE reduce_step(GetItem(st, n, Head(raw)), Tail(raw))

coerce(st, raw) == reduce(st, Root, raw)

PathRegistry_add(st, n, other) == reduce(st, n, st.heap[other].path)

\* p[i] for an int i, by the class of p; path[i] with Python's subscript.
Subscript(path, i) ==
    IF i >= 0 /\ i < Len(path)
    THEN [err |-> FALSE, val |-> path[i + 1]]
    ELSE IF i < 0 /\ 0 - i <= Len(path)
    THEN [err |-> FALSE, val |-> path[Len(path) + i + 1]]
    ELSE [err |-> TRUE, val |-> "IndexError"]

RootRegistry_getitem_int(path, i) == [err |-> TRUE, val |-> "AttributeError"]

TokenRegistry_getitem_int(path, i) == [err |-> TRUE, val |-> "NotImplementedError"]

PropRegistry_getitem_int(path, i) == Subscript(path, i)

EntityRegistry_getitem_int(path, i) == Subscript(path, i)

GetItemInt(node, i) ==
    CASE node.kind = "Root" -> RootRegistry_getitem_int(node.path, i)
      [] node.kind = "Token" -> TokenRegistry_getitem_int(node.path, i)
      [] node.kind = "Prop" -> PropRegistry_getitem_int(node.path, i)
      [] OTHER -> EntityRegistry_getitem_int(node.path, i)

\* ------------------------------------------------------ pure operations
\* [path[i] for i in range(0, len(path), 2)]
EvenElems(path) == [k \in 1 .. ((Len(path) + 1) \div 2) |-> path[2 * k - 1]]

\* [path[i] for i in range(1, len(path), 2)]
OddElems(path) == [k \in 1 .. (Len(path) \div 2) |-> path[2 * k]]

\* The generator pairs(): one tuple per i in range(0, len(path), 2); the
\* read of path[i + 1] raises IndexError when i is the last position.
pairs(path) ==
    LET starts == {i \in 0 .. (Len(path) - 1) : i % 2 = 0}
        good == {i \in starts : i + 1 < Len(path)}
    IN [val |-> [k \in 1 .. Cardinality(good) |->
                    <<path[2 * k - 1], path[2 * k]>>],
        err |-> good # starts]

RECURSIVE contains_loop_any_entity(_, _)
\* Variant: the is_mapper test is left out, an alias is tested through its
\* mapper.
contains_loop_any_entity(list, m) ==
    IF list = <<>>
    THEN [err |-> FALSE, val |-> FALSE]
    ELSE IF Head(list) \notin Entities
    THEN [err |-> TRUE, val |-> FALSE]
    ELSE IF isa(mapper(Head(list)), m)
    THEN [err |-> FALSE, val |-> TRUE]
    ELSE contains_loop_any_entity(Tail(list), m)

RECURSIVE contains_loop(_, _)
\* The for ... else of contains_mapper over the elements at even positions.
contains_loop(list, m) ==
    IF list = <<>>
    THEN [err |-> FALSE, val |-> FALSE]
    ELSE IF Head(list) \notin Entities
    THEN [err |-> TRUE, val |-> FALSE]
    ELSE IF is_mapper(Head(list)) /\ isa(Head(list), m)
    THEN [err |-> FALSE, val |-> TRUE]
    ELSE contains_loop(Tail(list), m)

contains_mapper(path, m) == contains_loop(EvenElems(path), m)

Min(a, b) == IF a < b THEN a ELSE b

Zip(a, b) == [k \in 1 .. Min(Len(a), Len(b)) |-> <<a[k], b[k]>>]

\* Variant: the key list is zipped without its closing None.
serialize_without_none(path) ==
    LET ents == EvenElems(path)
        keys == OddElems(path)
    IN IF (\E k \in DOMAIN ents : ents[k] \notin Entities)
          \/ (\E k \in DOMAIN keys : keys[k] \notin Props)
       THEN [err |-> TRUE, val |-> <<>>]
       ELSE [err |-> FALSE,
             val |-> Zip([k \in DOMAIN ents |-> class_(ents[k])],
                         [k \in DOMAIN keys |-> prop_key(keys[k])])]

\* serialize: m.class_ of every element at an even position, .key of every
\* element at an odd position; a token has neither attribute.
serialize(path) ==
    LET ents == EvenElems(path)
        keys == OddElems(path)
    IN IF (\E k \in DOMAIN ents : ents[k] \notin Entities)
          \/ (\E k \in DOMAIN keys : keys[k] \notin Props)
       THEN [err |-> TRUE, val |-> <<>>]
       ELSE [err |-> FALSE,
             val |-> Zip([k \in DOMAIN ents |-> class_(ents[k])],
                         Append([k \in DOMAIN keys |-> prop_key(keys[k])],
                                "None"))]

\* class_mapper(mcls).attrs[key]
attr(m, key) == CHOOSE p \in attrs(m) : prop_key(p) = key

RECURSIVE chain_pairs(_)
\* chain(*[(class_mapper(mcls), class_mapper(mcls).attrs[key] or None) ...])
chain_pairs(ser) ==
    IF ser = <<>>
    THEN <<>>
    ELSE LET m == class_mapper(Head(ser)[1])
             key == Head(ser)[2]
         IN <<m, IF key # "None" THEN attr(m, key) ELSE "None">>
            \o chain_pairs(Tail(ser))

deserialize(st, ser) ==
    IF \E k \in DOMAIN ser :
          /\ ser[k][2] # "None"
          /\ ~\E p \in attrs(class_mapper(ser[k][1])) : prop_key(p) = ser[k][2]
    THEN Raise(st)
    ELSE LET p == chain_pairs(ser)
             q == IF p # <<>> /\ Last(p) = "None"
                  THEN SubSeq(p, 1, Len(p) - 1)
                  ELSE p
         IN coerce(st, q)

\* ----------------------------------------------------------------- init
NoRes == [op |-> "none", n |-> 0, key |-> "", idx |-> 0, err |-> FALSE,
          out |-> 0, val |-> <<>>]

Threads == 1 .. NumThreads

Idle == [pc |-> "idle", n |-> 0, key |-> "", item |-> 0]

Init ==
    /\ heap = <<[kind |-> "Root", path |-> <<>>, parent |-> 0,
                 cache |-> EmptyCache]>>
    /\ reg = [e \in Entities |-> 0]
    /\ res = NoRes
    /\ thr = [t \in Threads |-> Idle]
    /\ returned = {}

Nodes == 1 .. Len(heap)

Cur == Store(heap, reg)

\* Every call leaves its outcome in res; the caller takes it (Return)
\* before it calls again.
Ready == res.op = "none"

\* The call recorded in call ends with outcome r.
Complete(r, call) ==
    /\ Len(r.st.heap) <= MaxObjs
    /\ heap' = r.st.heap
    /\ reg' = r.st.reg
    /\ res' = [call EXCEPT !.err = r.err, !.out = r.out]
    /\ UNCHANGED <<thr, returned>>

\* p[key], key an entity, a property or a token.
Index(n, key) ==
    /\ Ready
    /\ Complete(GetItem(Cur, n, key),
                [NoRes EXCEPT !.op = "index", !.n = n, !.key = key])

\* p[i], i an int.
IntIndex(n, i) ==
    LET r == GetItemInt(heap[n], i)
    IN /\ Ready
       /\ res' = [NoRes EXCEPT !.op = "int", !.n = n, !.idx = i,
                               !.err = r.err, !.val = r.val]
       /\ UNCHANGED <<heap, reg, thr, returned>>

\* p.token(t)
Token(n, t) ==
    /\ Ready
    /\ \/ heap[n].kind = "Token"
       \/ Cardinality({k \in Nodes : heap[k].kind = "Token"}) < MaxTokens
    /\ Complete(token(Cur, n, t),
                [NoRes EXCEPT !.op = "token", !.n = n, !.key = t])

\* p + other
Add(n, other) ==
    /\ Ready
    /\ Len(heap[other].path) \in 1 .. MaxIdx + 1
    /\ Complete(PathRegistry_add(Cur, n, other),
                [NoRes EXCEPT !.op = "add", !.n = n, !.idx = other])

\* list(p.pairs())
Pairs(n) ==
    LET r == pairs(heap[n].path)
    IN /\ Ready
       /\ res' = [NoRes EXCEPT !.op = "pairs", !.n = n, !.err = r.err,
                               !.val = r.val]
       /\ UNCHANGED <<heap, reg, thr, returned>>

\* p.contains_mapper(m)
ContainsMapper(n, m) ==
    LET r == contains_mapper(heap[n].path, m)
    IN /\ Ready
       /\ res' = [NoRes EXCEPT !.op = "contains", !.n = n, !.key = m,
                               !.err = r.err, !.val = r.val]
       /\ UNCHANGED <<heap, reg, thr, returned>>

\* _unreduce_path(s.val): loading the pickled state s; a serialize that
\* raised leaves nothing to load.
unreduce_path(st, s) == IF s.err THEN Raise(st) ELSE deserialize(st, s.val)

\* pickle round trip: __reduce__ gives (_unreduce_path, (p.serialize(),)),
\* and loading calls PathRegistry.deserialize on it.
Pickle(n) ==
    /\ Ready
    /\ Complete(unreduce_path(Cur, serialize(heap[n].path)),
                [NoRes EXCEPT !.op = "pickle", !.n = n,
                              !.val = serialize(heap[n].path).val])

Return ==
    /\ ~Ready
    /\ res' = NoRes
    /\ UNCHANGED <<heap, reg, thr, returned>>

Next ==
    \/ \E n \in Nodes : \E key \in InputKeys(heap[n].kind) : Index(n, key)
    \/ \E n \in Nodes, i \in IntKeys : IntIndex(n, i)
    \/ \E n \in Nodes, t \in Tokens : Token(n, t)
    \/ \E n \in Nodes, other \in Nodes : Add(n, other)
    \/ \E n \in Nodes : Pairs(n)
    \/ \E n \in Nodes, m \in {"T", "S1"} : ContainsMapper(n, m)
    \/ \E n \in Nodes : Pickle(n)
    \/ Return

Spec == Init /\ [][Next]_vars

\* ------------------------------------------- concurrent E[key] callers
\* dict.__getitem__(self, key): a hit returns the cached child; a miss
\* enters __missing__.
Call(t, n, key) ==
    /\ thr[t].pc = "idle"
    /\ heap[n].kind = "Entity"
    /\ IF heap[n].cache[dict_slot(key)] # 0
       THEN /\ returned' = returned \cup
                   {<<n, key, heap[heap[n].cache[dict_slot(key)]].path>>}
            /\ thr' = thr
       ELSE /\ thr' = [thr EXCEPT ![t] = [pc |-> "missing", n |-> n,
                                          key |-> key, item |-> 0]]
            /\ returned' = returned
    /\ UNCHANGED <<heap, reg, res>>

\* __missing__, right-hand side: PropRegistry(self, key).
\* The constructor a thread t is in ends with outcome r.
Constructed(t, r) ==
    /\ Len(r.st.heap) <= MaxObjsConc
    /\ heap' = r.st.heap
    /\ reg' = r.st.reg
    /\ thr' = [thr EXCEPT ![t] = IF r.err THEN Idle
                                 ELSE [@ EXCEPT !.pc = "built",
                                                !.item = r.out]]
    /\ UNCHANGED <<res, returned>>

Construct(t) ==
    /\ thr[t].pc = "missing"
    /\ Constructed(t, PropRegistry_init(Cur, thr[t].n, thr[t].key))

\* __missing__, the assignment self[key] = item, and the return.
StoreItem(t) ==
    /\ thr[t].pc = "built"
    /\ heap' = SetItem(Cur, thr[t].n, thr[t].key, thr[t].item).heap
    /\ returned' = returned \cup
           {<<thr[t].n, thr[t].key, heap[thr[t].item].path>>}
    /\ thr' = [thr EXCEPT ![t] = Idle]
    /\ UNCHANGED <<reg, res>>

NextConc ==
    \/ \E key \in {"T", "A"} :
          Len(heap) < MaxObjsConc /\ Index(Root, key)
    \/ Return
    \/ \E t \in Threads, n \in Nodes, key \in Props \cup Tokens : Call(t, n, key)
    \/ \E t \in Threads : Construct(t)
    \/ \E t \in Threads : StoreItem(t)

SpecConc == Init /\ [][NextConc]_vars

\* ============================================================== claims
PathOf(n) == heap[n].path

EntityNodes == {n \in Nodes : heap[n].kind = "Entity"}

AliasFree(path) == \A i \in DOMAIN path : path[i] \notin Aliases

TokenFree(path) == \A i \in DOMAIN path : path[i] \notin Tokens

\* C1 (as stated): every path built from the root by index and token
\* steps, aliased entities included, comes back from
\* deserialize(serialize(p)) with the same element sequence.
C1_RoundTripAnyPath ==
    res.op = "pickle" => (~res.err /\ PathOf(res.out) = PathOf(res.n))

\* C1 (amended): a path that holds no aliased entity and no token comes
\* back from deserialize(serialize(p)) with the same element sequence.
C1_RoundTripPlainPath ==
    (res.op = "pickle" /\ AliasFree(PathOf(res.n)) /\ TokenFree(PathOf(res.n)))
        => (~res.err /\ PathOf(res.out) = PathOf(res.n))

C1_Witness ==
    /\ res.op = "pickle"
    /\ ~res.err
    /\ Len(PathOf(res.n)) = 3
    /\ AliasFree(PathOf(res.n))
    /\ res.out # res.n
    /\ PathOf(res.out) = PathOf(res.n)

\* C2: for one EntityRegistry E and key P, every E[P] call, however the
\* lookup, construct and store steps of the callers interleave, returns a
\* node with the same path, and the node cached in E under P and the nodes
\* callers have built but not yet stored have that path too.
C2_IdempotentMemoization ==
    /\ \A r1 \in returned, r2 \in returned :
          (r1[1] = r2[1] /\ r1[2] = r2[2]) => r1[3] = r2[3]
    /\ \A r \in returned :
          heap[r[1]].cache[r[2]] # 0
              => PathOf(heap[r[1]].cache[r[2]]) = r[3]
    /\ \A t \in Threads :
          thr[t].pc = "built" =>
             /\ \A r \in returned :
                   (r[1] = thr[t].n /\ r[2] = thr[t].key)
                       => r[3] = PathOf(thr[t].item)
             /\ heap[thr[t].n].cache[thr[t].key] # 0
                   => PathOf(heap[thr[t].n].cache[thr[t].key])
                        = PathOf(thr[t].item)

\* Two callers missed on the same (E, P): one has stored and returned its
\* node, the other still holds a node of its own.
C2_Witness ==
    \E t \in Threads :
        /\ thr[t].pc = "built"
        /\ heap[thr[t].n].cache[thr[t].key] # 0
        /\ heap[thr[t].n].cache[thr[t].key] # thr[t].item
        /\ <<thr[t].n, thr[t].key, PathOf(thr[t].item)>> \in returned

\* The (T, A, P) of restatement convergence: A an alias of mapper T that
\* defers to the mapper path, P declared on T, both Root[T][P] and
\* Root[A][P] materialized.
Converging ==
    {x \in Mappers \X Aliases \X Props :
        /\ mapper(x[2]) = x[1]
        /\ use_mapper_path(x[2])
        /\ prop_parent(x[3]) = x[1]
        /\ reg[x[1]] # 0
        /\ reg[x[2]] # 0
        /\ heap[reg[x[1]]].cache[x[3]] # 0
        /\ heap[reg[x[2]]].cache[x[3]] # 0}

\* C3: Root[T][P] and Root[A][P] both have the path (T, P), the declaring
\* entity and the property, and so serialize to the same form, the pair of
\* the declaring class T and the key of P.
C3_RestatementConvergence ==
    \A x \in Converging :
        LET p1 == PathOf(heap[reg[x[1]]].cache[x[3]])
            p2 == PathOf(heap[reg[x[2]]].cache[x[3]])
        IN /\ p1 = <<x[1], x[3]>>
           /\ p2 = <<x[1], x[3]>>
           /\ ~serialize(p1).err
           /\ ~serialize(p2).err
           /\ serialize(p1).val = serialize(p2).val
           /\ serialize(p1).val = << <<class_(x[1]), prop_key(x[3])>> >>

C3_Witness == Converging # {}

\* The (E, P) of polymorphic alias preservation: E an EntityRegistry of an
\* alias that does not defer to the mapper path and presents the mapper
\* declaring P, which is not the alias's own mapper; E[P] materialized.
PolyCached ==
    {x \in EntityNodes \X Props :
        LET e == Last(PathOf(x[1]))
        IN /\ is_aliased_class(e)
           /\ ~use_mapper_path(e)
           /\ prop_parent(x[2]) \in with_polymorphic_mappers(e)
           /\ prop_parent(x[2]) # mapper(e)
           /\ heap[x[1]].cache[x[2]] # 0}

\* C4: the parent of E[P] is the EntityRegistry of the alias's view of the
\* declaring subclass, under E's own parent; it is neither the bare
\* subclass mapper's registry nor E.
C4_PolymorphicAliasPreserved ==
    \A x \in PolyCached :
        LET e == Last(PathOf(x[1]))
            c == heap[x[1]].cache[x[2]]
            par == heap[c].parent
        IN /\ heap[par].kind = "Entity"
           /\ Last(PathOf(par)) = entity_for_mapper(e, prop_parent(x[2]))
           /\ Last(PathOf(par)) # prop_parent(x[2])
           /\ par # x[1]
           /\ PathOf(par) = Append(PathOf(heap[x[1]].parent), Last(PathOf(par)))
           /\ (heap[heap[x[1]].parent].kind = "Root"
                  => heap[par].parent = heap[x[1]].parent)
           /\ PathOf(c) = Append(PathOf(par), x[2])

C4_Witness ==
    \E x \in PolyCached :
        /\ Last(PathOf(x[1])) = "A"
        /\ heap[x[1]].parent = Root
        /\ x[2] = "pS1"

\* The (E, P) of restatement priority: E an EntityRegistry of an alias that
\* defers to the mapper path and also presents the mapper declaring P;
\* E[P] materialized.
DeferPolyCached ==
    {x \in EntityNodes \X Props :
        LET e == Last(PathOf(x[1]))
        IN /\ is_aliased_class(e)
           /\ use_mapper_path(e)
           /\ prop_parent(x[2]) \in with_polymorphic_mappers(e)
           /\ heap[x[1]].cache[x[2]] # 0}

\* C9: E[P] is rebased onto the declaring mapper itself (step 1), not onto
\* the alias's view of it (step 2).
C9_MapperPathWins ==
    \A x \in DeferPolyCached :
        LET e == Last(PathOf(x[1]))
            c == heap[x[1]].cache[x[2]]
            par == heap[c].parent
        IN /\ Last(PathOf(par)) = prop_parent(x[2])
           /\ Last(PathOf(par)) # entity_for_mapper(e, prop_parent(x[2]))
           /\ PathOf(c) = PathOf(heap[x[1]].parent)
                            \o <<prop_parent(x[2]), x[2]>>

C9_Witness == DeferPolyCached # {}

\* C5 (as stated): pairs() yields the complete (entity, property) tuples in
\* order, drops a trailing unpaired element, and ends without an error.
C5_PairsDropsTrailing ==
    res.op = "pairs" =>
        /\ ~res.err
        /\ res.val = [k \in 1 .. (Len(PathOf(res.n)) \div 2) |->
                         <<PathOf(res.n)[2 * k - 1], PathOf(res.n)[2 * k]>>]

\* C6: an E[key] that raises while the PropRegistry is constructed leaves
\* the heap, E's cache with it, as it was, with no entry under key.
C6_ErrorAtomicity ==
    [][(res'.op = "index" /\ res'.err /\ res.op = "none"
           /\ heap[res'.n].kind = "Entity")
        => (heap' = heap /\ reg' = reg
               /\ heap'[res'.n].cache[res'.key] = 0)]_vars

\* An E[key] has raised on an EntityRegistry that holds other entries.
C6_Witness ==
    /\ res.op = "index"
    /\ res.err
    /\ heap[res.n].kind = "Entity"
    /\ \E k \in Keys : heap[res.n].cache[k] # 0

InRange(path, i) == (i >= 0 /\ i < Len(path)) \/ (i < 0 /\ 0 - i <= Len(path))

\* C7 (as stated): on a registry of any of the four classes, p[i] for an
\* in-range int i is the element of the path at that position.
C7_IntIndexUniform ==
    (res.op = "int" /\ InRange(PathOf(res.n), res.idx))
        => (~res.err /\ res.val = Subscript(PathOf(res.n), res.idx).val)

EntityPositionsHoldEntities(path) ==
    \A k \in DOMAIN EvenElems(path) : EvenElems(path)[k] \in Entities

\* C8 (as stated): on a path whose entity positions hold entity
\* descriptors, plain or aliased, the answer is true iff the predicate
\* "is the mapper m or inherits from it" holds of one of them.
C8_ContainsAnyEntity ==
    (res.op = "contains" /\ EntityPositionsHoldEntities(PathOf(res.n)))
        => /\ ~res.err
           /\ res.val = (\E k \in DOMAIN EvenElems(PathOf(res.n)) :
                            isa(mapper(EvenElems(PathOf(res.n))[k]), res.key))

\* C8 (amended): the answer is true iff the predicate holds of an element
\* at an entity position that is a plain mapper; aliased descriptors are
\* passed over; the answer is false on the empty root path.
C8_ContainsPlainMapper ==
    (res.op = "contains" /\ EntityPositionsHoldEntities(PathOf(res.n)))
        => /\ ~res.err
           /\ res.val = (\E k \in DOMAIN EvenElems(PathOf(res.n)) :
                            /\ EvenElems(PathOf(res.n))[k] \in Mappers
                            /\ isa(EvenElems(PathOf(res.n))[k], res.key))
           /\ (PathOf(res.n) = <<>> => res.val = FALSE)

\* The call passed over an alias of the mapper asked for and found it in a
\* plain mapper further down the path.
C8_Witness ==
    /\ res.op = "contains"
    /\ res.val = TRUE
    /\ \E k \in DOMAIN EvenElems(PathOf(res.n)) :
          /\ EvenElems(PathOf(res.n))[k] \in Aliases
          /\ isa(mapper(EvenElems(PathOf(res.n))[k]), res.key)

PlainAlias(e) ==
    is_aliased_class(e) /\ ~use_mapper_path(e) /\ with_polymorphic_mappers(e) = {}

\* C10 (as stated): entities at even positions, properties at odd
\* positions, at most one token and only last in place of a property, and
\* a property that is not last is followed by the entity it leads to
\* (positions counted from 0).
C10_ShapeAsStated ==
    \A n \in Nodes : \A i \in DOMAIN PathOf(n) :
        /\ i % 2 = 1 => PathOf(n)[i] \in Entities
        /\ i % 2 = 0 =>
              \/ PathOf(n)[i] \in Props
              \/ (i = Len(PathOf(n)) /\ PathOf(n)[i] \in Tokens)
        /\ (i % 2 = 0 /\ i < Len(PathOf(n)) /\ PathOf(n)[i] \in Props)
              => PathOf(n)[i + 1] = prop_mapper(PathOf(n)[i])

\* C10 (amended): a path is a prefix built by index steps, followed by at
\* most one token appended by token(); the token is last and its parent is
\* no TokenRegistry, since token() on a TokenRegistry raises and builds
\* nothing.  In the prefix the even positions hold entity descriptors and
\* every odd position holds the key given to the entity before it: a
\* property, or any key when that entity is an alias that neither defers
\* nor is polymorphic.  A property is found at odd positions of the prefix
\* only, after an entity.
C10_ShapeOfPaths ==
    /\ \A n \in Nodes :
          LET path == PathOf(n)
              k == IF heap[n].kind = "Token" THEN 1 ELSE 0
          IN /\ k <= Len(path)
             /\ heap[n].kind = "Token" => heap[heap[n].parent].kind # "Token"
             /\ \A i \in DOMAIN path :
                   /\ i > Len(path) - k => path[i] \in Tokens
                   /\ (i <= Len(path) - k /\ i % 2 = 1) => path[i] \in Entities
                   /\ (i <= Len(path) - k /\ i % 2 = 0)
                         => (path[i] \in Props \/ PlainAlias(path[i - 1]))
                   /\ path[i] \in Props => (i % 2 = 0 /\ i <= Len(path) - k)
    /\ (res.op = "token" /\ heap[res.n].kind = "Token")
          => (res.err /\ res.out = 0)

\* A token follows a property at an even position, and token() on a
\* TokenRegistry has just raised.
C10_Witness ==
    /\ \E n \in Nodes :
          /\ heap[n].kind = "Token"
          /\ heap[heap[n].parent].kind = "Prop"
    /\ res.op = "token"
    /\ heap[res.n].kind = "Token"
    /\ res.err
====
